---- MODULE Spec2Model ----
(***************************************************************************)
(* Model of boa/explorer.py: fetch_abi_from_etherscan and the module-level *)
(* requests.Session.  Text (addresses, HTTP bodies, JSON documents) is a   *)
(* sequence of one-character strings, so that normalisation, stripping,    *)
(* encoding and decoding are computed character by character.              *)
(***************************************************************************)
EXTENDS Integers, Sequences, FiniteSets, TLC

\* ------------------------------------------------------------------ bounds

\* Calls of fetch_abi_from_etherscan made by the host program.
MaxCalls == 2
\* Longest ABI array the explorer serves.
MaxAbiLen == 2

\* ------------------------------------------------------- JSON values (json)

\* Python values produced by json.loads, tagged by type:
\* str (v: the characters), list (v: the items), dict (v: the items as
\* <<key characters, value>> pairs in insertion order, keys unique).
JNull == [t |-> "null", v |-> <<>>]
JStr(cs) == [t |-> "str", v |-> cs]
JArr(xs) == [t |-> "arr", v |-> xs]
JObj(ps) == [t |-> "obj", v |-> ps]

\* Whitespace json.loads skips between tokens (json.decoder.WHITESPACE).
JsonWs == {" ", "\t", "\n", "\r"}
\* Whitespace str.strip() and int() remove at both ends (the part of
\* str.isspace() within the model's alphabet).
PyWs == {" ", "\t", "\n", "\r", "\f"}
\* Characters a JSON string may not hold unescaped (strict mode).
ControlChars == {"\t", "\n", "\r", "\f"}

Quote == "\""
Backslash == "\\"

\* dict.__contains__ / dict.__getitem__ / dict.__setitem__ on the pairs.
HasKey(ps, k) == \E i \in 1..Len(ps) : ps[i][1] = k
Lookup(ps, k) == ps[CHOOSE i \in 1..Len(ps) : ps[i][1] = k][2]
DictSet(ps, k, x) ==
    IF HasKey(ps, k)
    THEN [i \in 1..Len(ps) |-> IF ps[i][1] = k THEN <<k, x>> ELSE ps[i]]
    ELSE Append(ps, <<k, x>>)

\* ------------------------------------------------------------ json.dumps
\* The encoding the explorer (and the round-trip property) applies to an
\* ABI array: json.dumps with its default separators ", " and ": ".

EscapeChar(c) ==
    CASE c = Quote -> <<Backslash, Quote>>
      [] c = Backslash -> <<Backslash, Backslash>>
      [] c = "\n" -> <<Backslash, "n">>
      [] c = "\t" -> <<Backslash, "t">>
      [] c = "\r" -> <<Backslash, "r">>
      [] c = "\f" -> <<Backslash, "f">>
      [] OTHER -> <<c>>

\* The escapes of the characters lo..hi, by halves.
RECURSIVE EscapeRange(_, _, _)
EscapeRange(cs, lo, hi) ==
    IF lo > hi THEN <<>>
    ELSE IF lo = hi THEN EscapeChar(cs[lo])
    ELSE LET mid == (lo + hi) \div 2
         IN  EscapeRange(cs, lo, mid) \o EscapeRange(cs, mid + 1, hi)

DumpsStr(cs) == <<Quote>> \o EscapeRange(cs, 1, Len(cs)) \o <<Quote>>

RECURSIVE JsonDumps(_), DumpsItems(_, _), DumpsPairs(_, _)
JsonDumps(x) ==
    CASE x.t = "str" -> DumpsStr(x.v)
      [] x.t = "arr" -> <<"[">> \o DumpsItems(x.v, 1) \o <<"]">>
      [] x.t = "obj" -> <<"{">> \o DumpsPairs(x.v, 1) \o <<"}">>
      [] OTHER -> <<"n", "u", "l", "l">>
DumpsItems(xs, i) ==
    IF i > Len(xs) THEN <<>>
    ELSE (IF i > 1 THEN <<",", " ">> ELSE <<>>)
         \o JsonDumps(xs[i]) \o DumpsItems(xs, i + 1)
DumpsPairs(ps, i) ==
    IF i > Len(ps) THEN <<>>
    ELSE (IF i > 1 THEN <<",", " ">> ELSE <<>>)
         \o DumpsStr(ps[i][1]) \o <<":", " ">> \o JsonDumps(ps[i][2])
         \o DumpsPairs(ps, i + 1)

\* ------------------------------------------------------------ json.loads
\* A recursive-descent decoder for the strings, arrays and objects of JSON,
\* as json.decoder / json.scanner decode them.  A result is
\* [ok, val, pos]: pos is the index after the value.

ParseFail == [ok |-> FALSE, val |-> JNull, pos |-> 0]
ParseOk(x, p) == [ok |-> TRUE, val |-> x, pos |-> p]

\* Index of the first character at or after i that is not JSON whitespace
\* (Len(s) + 1 when there is none).
SkipWs(s, i) ==
    LET cand == {j \in i..(Len(s) + 1) : j = Len(s) + 1 \/ s[j] \notin JsonWs}
    IN  CHOOSE j \in cand : \A k \in cand : j <= k

Unescape(c) ==
    CASE c = "n" -> "\n"
      [] c = "t" -> "\t"
      [] c = "r" -> "\r"
      [] c = "f" -> "\f"
      [] OTHER -> c

\* py_scanstring's loop.  A scan state is [ok, out, esc, end]: out the
\* characters decoded so far, esc whether the last character was the
\* backslash of an escape, end the index after the closing quote (0 until
\* it is met).
ScanStart == [ok |-> TRUE, out |-> <<>>, esc |-> FALSE, end |-> 0]
\* One character c, at index k.
ScanStep(st, c, k) ==
    IF st.esc
    THEN IF c \in {Quote, Backslash, "/", "n", "t", "r", "f"}
         THEN [st EXCEPT !.out = Append(st.out, Unescape(c)), !.esc = FALSE]
         ELSE [st EXCEPT !.ok = FALSE]
    ELSE IF c = Quote THEN [st EXCEPT !.end = k + 1]
    ELSE IF c = Backslash THEN [st EXCEPT !.esc = TRUE]
    ELSE IF c \in ControlChars THEN [st EXCEPT !.ok = FALSE]
    ELSE [st EXCEPT !.out = Append(st.out, c)]
\* The characters lo..hi in order, by halves, until the closing quote or an
\* error.
RECURSIVE ScanRange(_, _, _, _)
ScanRange(s, lo, hi, st) ==
    IF lo > hi THEN st
    ELSE IF lo = hi THEN ScanStep(st, s[lo], lo)
    ELSE LET mid == (lo + hi) \div 2
             left == ScanRange(s, lo, mid, st)
         IN  IF ~left.ok \/ left.end # 0 THEN left
             ELSE ScanRange(s, mid + 1, hi, left)
\* py_scanstring from index i, the character after the opening quote: the
\* characters of the string and the index after its closing quote.
ScanString(s, i) ==
    LET st == ScanRange(s, i, Len(s), ScanStart)
    IN  IF st.ok /\ st.end # 0 THEN ParseOk(st.out, st.end) ELSE ParseFail

RECURSIVE ParseValue(_, _), ArrayItems(_, _, _), ObjectItems(_, _, _)
\* scanner._scan_once at index i.
ParseValue(s, i) ==
    IF i > Len(s) THEN ParseFail
    ELSE IF s[i] = Quote
         THEN LET r == ScanString(s, i + 1)
              IN  IF r.ok THEN ParseOk(JStr(r.val), r.pos) ELSE ParseFail
    ELSE IF s[i] = "["
         THEN LET j == SkipWs(s, i + 1)
              IN  IF j > Len(s) THEN ParseFail
                  ELSE IF s[j] = "]" THEN ParseOk(JArr(<<>>), j + 1)
                  ELSE ArrayItems(s, j, <<>>)
    ELSE IF s[i] = "{"
         THEN LET j == SkipWs(s, i + 1)
              IN  IF j > Len(s) THEN ParseFail
                  ELSE IF s[j] = "}" THEN ParseOk(JObj(<<>>), j + 1)
                  ELSE IF s[j] # Quote THEN ParseFail
                  ELSE ObjectItems(s, j, <<>>)
    ELSE ParseFail
\* JSONArray: the items from index i, acc the items decoded so far.
ArrayItems(s, i, acc) ==
    LET r == ParseValue(s, i)
    IN  IF ~r.ok THEN ParseFail
        ELSE LET j == SkipWs(s, r.pos)
             IN  IF j > Len(s) THEN ParseFail
                 ELSE IF s[j] = "]" THEN ParseOk(JArr(Append(acc, r.val)), j + 1)
                 ELSE IF s[j] = ","
                      THEN ArrayItems(s, SkipWs(s, j + 1), Append(acc, r.val))
                 ELSE ParseFail
\* JSONObject: the pairs from the opening quote of a key at index i.
ObjectItems(s, i, acc) ==
    LET k == ScanString(s, i + 1)
    IN  IF ~k.ok THEN ParseFail
        ELSE LET j == SkipWs(s, k.pos)
             IN  IF j > Len(s) \/ s[j] # ":" THEN ParseFail
                 ELSE LET r == ParseValue(s, SkipWs(s, j + 1))
                      IN  IF ~r.ok THEN ParseFail
                          ELSE LET m == SkipWs(s, r.pos)
                                   acc2 == DictSet(acc, k.val, r.val)
                               IN  IF m > Len(s) THEN ParseFail
                                   ELSE IF s[m] = "}" THEN ParseOk(JObj(acc2), m + 1)
                                   ELSE IF s[m] = ","
                                        THEN LET n == SkipWs(s, m + 1)
                                             IN  IF n > Len(s) \/ s[n] # Quote
                                                 THEN ParseFail
                                                 ELSE ObjectItems(s, n, acc2)
                                   ELSE ParseFail

\* A decoder that gives an empty array for a document it cannot decode.
JsonLoadsOrEmpty(s) ==
    LET r == ParseValue(s, SkipWs(s, 1))
    IN  IF r.ok /\ SkipWs(s, r.pos) = Len(s) + 1
        THEN ParseOk(r.val, r.pos)
        ELSE ParseOk(JArr(<<>>), Len(s) + 1)

\* json.loads (JSONDecoder.decode): one value, whitespace around it, and
\* nothing else ("Extra data" otherwise).
JsonLoads(s) ==
    LET r == ParseValue(s, SkipWs(s, 1))
    IN  IF r.ok /\ SkipWs(s, r.pos) = Len(s) + 1
        THEN ParseOk(r.val, r.pos)
        ELSE ParseFail

\* str.strip() left as the identity.
NoStrip(s) == s

\* str.strip(): the text without its leading and trailing whitespace.
Strip(s) ==
    LET keep == {i \in 1..Len(s) : s[i] \notin PyWs}
    IN  IF keep = {} THEN <<>>
        ELSE SubSeq(s, CHOOSE i \in keep : \A k \in keep : i <= k,
                       CHOOSE i \in keep : \A k \in keep : i >= k)

\* int(x) for a str: optional whitespace, optional sign, decimal digits.
\* [ok, exc, val]; a list or dict raises TypeError, other text ValueError.
Digits == <<"0", "1", "2", "3", "4", "5", "6", "7", "8", "9">>
DigitVal(c) == (CHOOSE i \in 1..10 : Digits[i] = c) - 1
IsDigit(c) == \E i \in 1..10 : Digits[i] = c
RECURSIVE DecimalValue(_, _, _)
DecimalValue(cs, i, acc) ==
    IF i > Len(cs) THEN acc
    ELSE DecimalValue(cs, i + 1, acc * 10 + DigitVal(cs[i]))
PyInt(x) ==
    IF x.t # "str" THEN [ok |-> FALSE, exc |-> "TypeError", val |-> 0]
    ELSE LET body == Strip(x.v)
             signed == Len(body) > 0 /\ body[1] \in {"+", "-"}
             digs == IF signed THEN SubSeq(body, 2, Len(body)) ELSE body
         IN  IF Len(digs) = 0 \/ \E i \in 1..Len(digs) : ~IsDigit(digs[i])
             THEN [ok |-> FALSE, exc |-> "ValueError", val |-> 0]
             ELSE [ok |-> TRUE, exc |-> "",
                   val |-> IF signed /\ body[1] = "-"
                           THEN 0 - DecimalValue(digs, 1, 0)
                           ELSE DecimalValue(digs, 1, 0)]

\* --------------------------------------------------- boa.environment.Address
\* Address lives in boa/environment.py: a raw string becomes the canonical
\* representation (prefix, fixed length, hexadecimal digits, checksum
\* letter case) or construction fails.

\* Hexadecimal digits of an address after the prefix.
HexLen == 40
LowerHex == <<"a", "b", "c", "d", "e", "f">>
UpperHex == <<"A", "B", "C", "D", "E", "F">>
IsHexLetter(c) == \E i \in 1..6 : c = LowerHex[i] \/ c = UpperHex[i]
IsHexChar(c) == IsDigit(c) \/ IsHexLetter(c)
ToLower(c) ==
    IF \E i \in 1..6 : c = UpperHex[i]
    THEN LowerHex[CHOOSE i \in 1..6 : c = UpperHex[i]] ELSE c
ToUpper(c) ==
    IF \E i \in 1..6 : c = LowerHex[i]
    THEN UpperHex[CHOOSE i \in 1..6 : c = LowerHex[i]] ELSE c
\* The checksum's letter case at hexadecimal position i: a fixed pattern
\* standing for the hash bit that decides it.
ChecksumUpper(i) == i % 3 = 0
\* The canonical text of a well-formed address: prefix, then each digit
\* in the checksum's case.
Canonical(raw) ==
    [i \in 1..(HexLen + 2) |->
        IF i <= 2 THEN raw[i]
        ELSE IF ChecksumUpper(i - 2) THEN ToUpper(raw[i]) ELSE ToLower(raw[i])]
WellFormed(raw) ==
    /\ Len(raw) = HexLen + 2
    /\ raw[1] = "0"
    /\ raw[2] = "x"
    /\ \A i \in 3..Len(raw) : IsHexChar(raw[i])
\* Address(raw): [ok, val]; not ok is the validation error, and val is
\* then the raw text, untouched.
Address(raw) ==
    IF WellFormed(raw) THEN [ok |-> TRUE, val |-> Canonical(raw)]
    ELSE [ok |-> FALSE, val |-> raw]

\* ----------------------------------------------------- inputs of the caller

Prefix == <<"0", "x">>
LowerAddr == Prefix \o [i \in 1..HexLen |-> IF i % 2 = 1 THEN "a" ELSE "1"]
\* Raw address arguments: two spellings of one address (lower case and
\* canonical), one too short, one with a character that is no digit.
RawAddresses ==
    { LowerAddr, Canonical(LowerAddr),
      SubSeq(LowerAddr, 1, HexLen + 1),
      [LowerAddr EXCEPT ![HexLen + 2] = "g"] }

DefaultUri == "https://api.etherscan.io/api"
Uris == {DefaultUri, "https://api-goerli.etherscan.io/api"}

\* api_key: None, or a str (the empty str included).
NoneKey == [some |-> FALSE, v |-> ""]
SomeKey(k) == [some |-> TRUE, v |-> k]
ApiKeys == {NoneKey, SomeKey(""), SomeKey("KEY")}

\* ------------------------------------------------- what the explorer answers

KStatus == <<"s", "t", "a", "t", "u", "s">>
KMessage == <<"m", "e", "s", "s", "a", "g", "e">>
KResult == <<"r", "e", "s", "u", "l", "t">>
KType == <<"t", "y", "p", "e">>
KName == <<"n", "a", "m", "e">>

\* {"type": "function", "name": "foo"}
EntryFoo ==
    JObj(<< <<KType, JStr(<<"f", "u", "n", "c", "t", "i", "o", "n">>)>>,
            <<KName, JStr(<<"f", "o", "o">>)>> >>)
\* An entry whose name holds a space, a quote and a backslash.
EntryOdd ==
    JObj(<< <<KType, JStr(<<"e", "v", "e", "n", "t">>)>>,
            <<KName, JStr(<<"a", " ", Quote, Backslash>>)>> >>)
Entries == {EntryFoo, EntryOdd}

\* The ABI arrays of at most MaxAbiLen entries.
Abis == {JArr(xs) : xs \in UNION {[1..n -> Entries] : n \in 0..MaxAbiLen}}

\* An encoding with whitespace around it.
Padded(e) == <<" ", "\f">> \o e \o <<"\n">>
\* An encoding cut short: without its last character, and its first half.
Truncated(e) == SubSeq(e, 1, Len(e) - 1)
Halved(e) == SubSeq(e, 1, Len(e) \div 2)

ValidResults ==
    {JsonDumps(a) : a \in Abis} \cup {Padded(JsonDumps(a)) : a \in Abis}
MalformedResults ==
    {Truncated(JsonDumps(a)) : a \in Abis}
    \cup {Halved(JsonDumps(a)) : a \in Abis}
    \cup {<<>>, <<" ", "\n">>}

MsgOk == <<"O", "K">>
MsgNotOk == <<"N", "O", "T", "O", "K">>
\* "Contract source code not verified", abridged: a result that is no JSON.
NotVerified == <<"n", "o", "t", " ", "v", "e", "r", "i", "f", "i", "e", "d">>

\* {"status": st, "message": msg, "result": result}: every field a string.
Envelope(st, msg, result) ==
    JsonDumps(JObj(<< <<KStatus, JStr(st)>>, <<KMessage, JStr(msg)>>,
                      <<KResult, JStr(result)>> >>))

StatusOne == <<"1">>
\* Status texts other than "1": three that are not 1 as integers, one that
\* is no integer, and one that is 1 once int() has dropped its whitespace.
OtherStatuses == {<<"0">>, <<"2">>, <<"-", "1">>, <<"x">>, <<" ", "1">>}

SuccessBodies ==
    {Envelope(StatusOne, MsgOk, r) : r \in ValidResults \cup MalformedResults}
    \cup {Envelope(StatusOne, MsgNotOk, JsonDumps(JArr(<<EntryFoo>>)))}
OtherBodies ==
    {Envelope(st, MsgNotOk, r) :
        st \in OtherStatuses,
        r \in {NotVerified, JsonDumps(JArr(<<EntryFoo>>)), <<"[">>}}
    \cup {Envelope(<<"0">>, MsgOk, NotVerified)}
\* Bodies of another shape: no JSON at all, empty, a list, an object
\* without status, one without result, a result that is no string, a
\* status that is no string.
OddBodies ==
    { <<"<", "h", "t", "m", "l", ">">>,
      <<>>,
      JsonDumps(JArr(<<>>)),
      JsonDumps(JObj(<<>>)),
      JsonDumps(JObj(<< <<KStatus, JStr(StatusOne)>> >>)),
      JsonDumps(JObj(<< <<KStatus, JStr(StatusOne)>>,
                        <<KResult, JArr(<<EntryFoo>>)>> >>)),
      JsonDumps(JObj(<< <<KStatus, JArr(<<>>)>>,
                        <<KResult, JStr(<<"[", "]">>)>> >>)) }
Bodies == SuccessBodies \cup OtherBodies \cup OddBodies

\* HTTP status codes the session hands back: a success, a redirection
\* status that is not followed (304 Not Modified), a client error and a
\* server error.
Codes == {200, 304, 404, 503}
Responses == [code : Codes, text : Bodies]

\* ------------------------------------------------------------------- state

VARIABLES
    loaded,          \* boa.explorer has been imported
    SESSION,         \* the module's global: a session object's id, 0 for none
    nSessions,       \* requests.Session objects constructed so far
    calls,           \* calls of fetch_abi_from_etherscan started
    nRequests,       \* SESSION.get invocations so far
    nRejected,       \* calls that ended at line 13 (the address was refused)
    reqSessions,     \* the session objects requests went through
    pc,              \* the running call's next line; idle, done, raised
    rawAddress,      \* the address argument
    uri,             \* the uri argument
    api_key,         \* the api_key argument
    address,         \* the local address after line 13
    params,          \* the local params
    request,         \* what line 19 sent
    res,             \* the local res: the response received
    data,            \* the local data
    outcome,         \* none, returned, or the exception raised
    raisedAt,        \* the line that raised it, 0 for none
    excData,         \* the value the raised error carries
    retval,          \* the value returned
    reqAtCall,       \* nRequests when the call started
    bodyParsed,      \* res.json() was called
    statusInspected, \* data["status"] was read
    resultParsed     \* data["result"] was read

shared == <<loaded, SESSION, nSessions, calls, nRequests, nRejected, reqSessions>>
args == <<rawAddress, uri, api_key>>
locals == <<address, params, request, res, data>>
result == <<outcome, raisedAt, excData, retval>>
trace == <<reqAtCall, bodyParsed, statusInspected, resultParsed>>
vars == <<shared, pc, args, locals, result, trace>>

NoSession == 0
EmptyDict == [k \in {} |-> ""]
NoRequest == [sent |-> FALSE, uri |-> "", params |-> EmptyDict, session |-> NoSession]
NoResponse == [code |-> 0, text |-> <<>>]

Init ==
    /\ loaded = FALSE
    /\ SESSION = NoSession
    /\ nSessions = 0
    /\ calls = 0
    /\ nRequests = 0
    /\ nRejected = 0
    /\ reqSessions = {}
    /\ pc = "idle"
    /\ rawAddress = <<>>
    /\ uri = DefaultUri
    /\ api_key = NoneKey
    /\ address = <<>>
    /\ params = EmptyDict
    /\ request = NoRequest
    /\ res = NoResponse
    /\ data = JNull
    /\ outcome = "none"
    /\ raisedAt = 0
    /\ excData = JNull
    /\ retval = JNull
    /\ reqAtCall = 0
    /\ bodyParsed = FALSE
    /\ statusInspected = FALSE
    /\ resultParsed = FALSE

\* ----------------------------------------------------- the statements' parts

\* A module whose global is left without a session object.
SessionMissing(n) == NoSession

\* Line 7: SESSION = requests.Session(), the n+1st session object.
SessionAtImport(n) == n + 1

\* A construction whose failure is not raised.
NeverRaises(r) == FALSE

\* Line 13: Address(address) raises when the construction fails, and no
\* handler stands between it and the caller.
Raises13(r) == ~r.ok

\* The raw argument left in place of the constructed Address.
RawParam(raw, normalized) == raw

\* Lines 13 and 15: the name address is rebound to the Address, and that is
\* what params holds.
AddressParam(raw, normalized) == normalized

\* A truthiness test in place of the test against None.
KeyTruthy(k) == k.some /\ k.v # ""

\* Line 16: api_key is not None.
KeyProvided(k) == k.some

\* Lines 15-17: dict(module=..., action=..., address=address) and, with a
\* key, params["apikey"] = api_key.
BuildParams(addr, k) ==
    LET base == [x \in {"module", "action", "address"} |->
                    CASE x = "module" -> "contract"
                      [] x = "action" -> "getabi"
                      [] OTHER -> addr]
    IN  IF KeyProvided(k)
        THEN [x \in DOMAIN base \cup {"apikey"} |->
                 IF x = "apikey" THEN k.v ELSE base[x]]
        ELSE base

\* A get that tries a second time.
CountWithRetry(n) == n + 2

\* Line 19: one SESSION.get per execution of the line.
CountAfterGet(n) == n + 1

\* Only the server errors raised.
IsServerError(code) == 500 <= code /\ code < 600

\* Line 20: res.raise_for_status() raises HTTPError for the client errors
\* (4xx) and the server errors (5xx), and for no other status.
IsHttpError(code) == 400 <= code /\ code < 600

\* Any status but 0 taken for a success.
StatusNonZero(n) == n # 0

\* Line 24: int(data["status"]) != 1 is the failure.
StatusOk(n) == n = 1

\* Only the message of the body kept.
MessageOnly(d) == IF d.t = "obj" /\ HasKey(d.v, KMessage) THEN Lookup(d.v, KMessage) ELSE JNull

\* Line 25: the ValueError's text is formatted from the whole of data.
ErrorPayload(d) == d

\* ----------------------------------------------------------------- actions

\* import boa.explorer: line 7 runs once.
ImportModule ==
    /\ ~loaded
    /\ loaded' = TRUE
    /\ SESSION' = SessionAtImport(nSessions)
    /\ nSessions' = nSessions + 1
    /\ UNCHANGED <<calls, nRequests, nRejected, reqSessions, pc, args, locals,
                   result, trace>>

\* The host calls fetch_abi_from_etherscan(a, u, k).
Call(a, u, k) ==
    /\ loaded
    /\ pc = "idle"
    /\ calls < MaxCalls
    /\ calls' = calls + 1
    /\ pc' = "L13"
    /\ rawAddress' = a
    /\ uri' = u
    /\ api_key' = k
    /\ reqAtCall' = nRequests
    /\ UNCHANGED <<loaded, SESSION, nSessions, nRequests, nRejected, reqSessions,
                   locals, result, bodyParsed, statusInspected, resultParsed>>

\* An exception leaves the function: nothing catches it.
Raise(exc, line, payload) ==
    /\ pc' = "raised"
    /\ outcome' = exc
    /\ raisedAt' = line
    /\ excData' = payload
    /\ retval' = retval

\* Line 13: address = Address(address).
NormalizeAddress ==
    /\ pc = "L13"
    /\ LET r == Address(rawAddress)
       IN  IF Raises13(r)
           THEN /\ Raise("ValidationError", 13, JNull)
                /\ nRejected' = nRejected + 1
                /\ address' = address
           ELSE /\ pc' = "L15"
                /\ address' = AddressParam(rawAddress, r.val)
                /\ nRejected' = nRejected
                /\ UNCHANGED result
    /\ UNCHANGED <<loaded, SESSION, nSessions, calls, nRequests, reqSessions,
                   args, params, request, res, data, trace>>

\* Lines 15-17: params.
MakeParams ==
    /\ pc = "L15"
    /\ params' = BuildParams(address, api_key)
    /\ pc' = "L19"
    /\ UNCHANGED <<shared, args, address, request, res, data, result, trace>>

\* What line 19 does before the answer: one get through the global SESSION.
Send ==
    /\ nRequests' = CountAfterGet(nRequests)
    /\ reqSessions' = reqSessions \cup {SESSION}
    /\ request' = [sent |-> TRUE, uri |-> uri, params |-> params,
                   session |-> SESSION]

\* Line 19: res = SESSION.get(uri, params=params), answered by r.
Get(r) ==
    /\ pc = "L19"
    /\ Send
    /\ res' = r
    /\ pc' = "L20"
    /\ UNCHANGED <<loaded, SESSION, nSessions, calls, nRejected, args, address,
                   params, data, result, trace>>

\* Line 19 when the connection fails: SESSION.get raises.
GetFails ==
    /\ pc = "L19"
    /\ Send
    /\ Raise("ConnectionError", 19, JNull)
    /\ UNCHANGED <<loaded, SESSION, nSessions, calls, nRejected, args, address,
                   params, res, data, trace>>

\* Line 20: res.raise_for_status().
RaiseForStatus ==
    /\ pc = "L20"
    /\ IF IsHttpError(res.code)
       THEN Raise("HTTPError", 20, JNull)
       ELSE pc' = "L22" /\ UNCHANGED result
    /\ UNCHANGED <<shared, args, locals, trace>>

\* Line 22: data = res.json().
ParseBody ==
    /\ pc = "L22"
    /\ bodyParsed' = TRUE
    /\ LET r == JsonLoads(res.text)
       IN  IF r.ok
           THEN data' = r.val /\ pc' = "L24" /\ UNCHANGED result
           ELSE Raise("JSONDecodeError", 22, JNull) /\ data' = data
    /\ UNCHANGED <<shared, args, address, params, request, res, reqAtCall,
                   statusInspected, resultParsed>>

\* Lines 24-25: if int(data["status"]) != 1: raise ValueError(f"...{data}").
CheckStatus ==
    /\ pc = "L24"
    /\ statusInspected' = TRUE
    /\ IF data.t # "obj" THEN Raise("TypeError", 24, JNull)
       ELSE IF ~HasKey(data.v, KStatus) THEN Raise("KeyError", 24, JNull)
       ELSE LET n == PyInt(Lookup(data.v, KStatus))
            IN  IF ~n.ok THEN Raise(n.exc, 24, JNull)
                ELSE IF ~StatusOk(n.val)
                     THEN Raise("ValueError", 25, ErrorPayload(data))
                     ELSE pc' = "L27" /\ UNCHANGED result
    /\ UNCHANGED <<shared, args, locals, reqAtCall, bodyParsed, resultParsed>>

\* Line 27: return json.loads(data["result"].strip()).
ParseResult ==
    /\ pc = "L27"
    /\ resultParsed' = TRUE
    /\ IF ~HasKey(data.v, KResult) THEN Raise("KeyError", 27, JNull)
       ELSE LET x == Lookup(data.v, KResult)
            IN  IF x.t # "str" THEN Raise("AttributeError", 27, JNull)
                ELSE LET r == JsonLoads(Strip(x.v))
                     IN  IF ~r.ok THEN Raise("JSONDecodeError", 27, JNull)
                         ELSE /\ pc' = "done"
                              /\ outcome' = "returned"
                              /\ retval' = r.val
                              /\ UNCHANGED <<raisedAt, excData>>
    /\ UNCHANGED <<shared, args, locals, reqAtCall, bodyParsed, statusInspected>>

\* The caller has the value or the exception and goes on: the call's frame
\* is gone.
Finish ==
    /\ pc \in {"done", "raised"}
    /\ pc' = "idle"
    /\ rawAddress' = <<>>
    /\ uri' = DefaultUri
    /\ api_key' = NoneKey
    /\ address' = <<>>
    /\ params' = EmptyDict
    /\ request' = NoRequest
    /\ res' = NoResponse
    /\ data' = JNull
    /\ outcome' = "none"
    /\ raisedAt' = 0
    /\ excData' = JNull
    /\ retval' = JNull
    /\ reqAtCall' = nRequests
    /\ bodyParsed' = FALSE
    /\ statusInspected' = FALSE
    /\ resultParsed' = FALSE
    /\ UNCHANGED shared

Next ==
    \/ ImportModule
    \/ \E a \in RawAddresses, u \in Uris, k \in ApiKeys : Call(a, u, k)
    \/ NormalizeAddress
    \/ MakeParams
    \/ \E r \in Responses : Get(r)
    \/ GetFails
    \/ RaiseForStatus
    \/ ParseBody
    \/ CheckStatus
    \/ ParseResult
    \/ Finish

Spec == Init /\ [][Next]_vars

\* ------------------------------------------------------------- properties

\* The running call has ended: its value or its exception is with the caller.
Finished == pc \in {"done", "raised"}
\* A response was received, and line 20 has run on it.
Past20 == res # NoResponse /\ pc # "L20"

\* The body decodes to a dict whose status converts to an integer.
StatusReadable(d) ==
    /\ d.ok
    /\ d.val.t = "obj"
    /\ HasKey(d.val.v, KStatus)
    /\ PyInt(Lookup(d.val.v, KStatus)).ok
StatusValue(d) == PyInt(Lookup(d.val.v, KStatus)).val

\* The success bodies whose result is the encoding of an ABI array, bare or
\* with whitespace around it, each with its array.
RoundTripCases ==
    {[abi |-> a, text |-> Envelope(StatusOne, MsgOk, JsonDumps(a))] : a \in Abis}
    \cup {[abi |-> a, text |-> Envelope(StatusOne, MsgOk, Padded(JsonDumps(a)))] :
            a \in Abis}
\* The success bodies whose result is no JSON document.
MalformedCases == {Envelope(StatusOne, MsgOk, r) : r \in MalformedResults}

\* C1: a call whose address argument is no valid address ends in the
\* validation error raised at line 13, and no request was issued by it:
\* the count of requests is what it was when the call started, whatever
\* the uri and the api_key.
C1_InvalidAddressFailsBeforeRequest ==
    (pc \notin {"idle", "L13"} /\ ~WellFormed(rawAddress))
        => /\ pc = "raised"
           /\ outcome = "ValidationError"
           /\ raisedAt = 13
           /\ nRequests = reqAtCall
           /\ ~request.sent
           /\ res = NoResponse

\* C1 witness: a second call, with another uri and a key, refused for its
\* address after the first call had issued a request.
C1_Witness ==
    /\ pc = "raised"
    /\ outcome = "ValidationError"
    /\ ~WellFormed(rawAddress)
    /\ uri # DefaultUri
    /\ api_key.some
    /\ reqAtCall = 1
    /\ nRequests = 1

\* C2 as stated: after any sequence of calls, the requests issued are as
\* many as the calls.
C2_AsStated == (pc = "idle") => nRequests = calls

\* C2 amended: every call whose address is valid issues exactly one request,
\* the calls that end in an error after it included, and a call whose
\* address is refused issues none; so the requests are as many as the calls
\* that were not refused.
C2_OneRequestPerAcceptedCall ==
    /\ pc \in {"idle", "done", "raised"} => nRequests = calls - nRejected
    /\ Finished => nRequests - reqAtCall = (IF WellFormed(rawAddress) THEN 1 ELSE 0)
    /\ Finished => ((outcome = "ValidationError") <=> ~WellFormed(rawAddress))

\* C2 witness: two calls, two requests, the second call ended in an error.
C2_Witness ==
    /\ pc = "raised"
    /\ outcome = "HTTPError"
    /\ calls = 2
    /\ nRequests = 2
    /\ reqAtCall = 1

C4_BadStatusRaisesWithBody ==
    (Past20 /\ pc \notin {"L22", "L24"} /\ res.code \in 200..299)
        => LET d == JsonLoads(res.text)
           IN  (StatusReadable(d) /\ StatusValue(d) # 1)
                   => /\ pc = "raised"
                      /\ outcome = "ValueError"
                      /\ raisedAt = 25
                      /\ excData = d.val
                      /\ (HasKey(d.val.v, KMessage)
                            => /\ excData.t = "obj"
                               /\ HasKey(excData.v, KMessage)
                               /\ Lookup(excData.v, KMessage)
                                      = Lookup(d.val.v, KMessage))
                      /\ ~resultParsed
                      /\ retval = JNull

\* C4 witness: status "0", message NOTOK, a result that is no JSON.
C4_Witness ==
    /\ pc = "raised"
    /\ outcome = "ValueError"
    /\ raisedAt = 25
    /\ res.text = Envelope(<<"0">>, MsgNotOk, <<"[">>)
    /\ Lookup(excData.v, KMessage) = JStr(MsgNotOk)

\* C5: a success status, status "1" and a result that is the encoding of an
\* ABI array, bare or with whitespace around it, make the call return that
\* array: the same entries in the same order.
C5_RoundTrip ==
    (Past20 /\ pc \notin {"L22", "L24", "L27"} /\ res.code \in 200..299)
        => \A c \in RoundTripCases :
              res.text = c.text
                  => (pc = "done" /\ outcome = "returned" /\ retval = c.abi)

\* C5 witness: two different entries, whitespace around the encoding.
C5_Witness ==
    /\ pc = "done"
    /\ outcome = "returned"
    /\ retval = JArr(<<EntryOdd, EntryFoo>>)
    /\ Lookup(data.v, KResult) = JStr(Padded(JsonDumps(JArr(<<EntryOdd, EntryFoo>>))))

\* C6: the parameters sent hold apikey exactly when an api_key was given,
\* with the value given; without one they are module=contract,
\* action=getabi and address, and nothing else.
C6_ApiKeyParam ==
    request.sent
        => /\ ("apikey" \in DOMAIN request.params) <=> api_key.some
           /\ api_key.some => request.params["apikey"] = api_key.v
           /\ {"module", "action", "address"} \subseteq DOMAIN request.params
           /\ DOMAIN request.params \subseteq {"module", "action", "address", "apikey"}
           /\ request.params["module"] = "contract"
           /\ request.params["action"] = "getabi"
           /\ request.uri = uri

\* C6 witness: the empty string given as the key, and sent.
C6_Witness ==
    /\ request.sent
    /\ api_key = SomeKey("")
    /\ "apikey" \in DOMAIN request.params
    /\ request.params["apikey"] = ""

\* C7: the address parameter sent is the canonical form of the argument,
\* not the argument as written, so every spelling of one address gives the
\* same parameters.
C7_NormalizedAddressParam ==
    request.sent
        => /\ WellFormed(rawAddress)
           /\ request.params["address"] = Canonical(rawAddress)
           /\ (rawAddress # Canonical(rawAddress)
                 => request.params["address"] # rawAddress)
           /\ \A raw2 \in RawAddresses :
                 (WellFormed(raw2) /\ Canonical(raw2) = Canonical(rawAddress))
                     => BuildParams(AddressParam(raw2, Address(raw2).val), api_key)
                            = request.params

\* C7 witness: the lower-case spelling given, the canonical one sent.
C7_Witness ==
    /\ request.sent
    /\ rawAddress = LowerAddr
    /\ request.params["address"] = Canonical(LowerAddr)
    /\ request.params["address"] # rawAddress

\* C8: a success status, status "1" and a result that is no JSON document
\* (cut short, or empty once stripped) make the call fail with the decode
\* error at line 27; nothing is returned.
C8_MalformedResultRaises ==
    (Past20 /\ pc \notin {"L22", "L24", "L27"} /\ res.code \in 200..299
     /\ res.text \in MalformedCases)
        => (pc = "raised" /\ outcome = "JSONDecodeError" /\ raisedAt = 27
            /\ retval = JNull)

\* C8 witness: the encoding of one entry without its closing bracket.
C8_Witness ==
    /\ pc = "raised"
    /\ outcome = "JSONDecodeError"
    /\ raisedAt = 27
    /\ Lookup(data.v, KResult) = JStr(Truncated(JsonDumps(JArr(<<EntryFoo>>))))

\* What a call needs to return a value, but for the HTTP status: a valid
\* address, a request answered, a body that decodes to a dict whose status
\* is 1 as an integer and whose result is a string that decodes.
ReturnConditions ==
    /\ WellFormed(rawAddress)
    /\ request.sent
    /\ res # NoResponse
    /\ LET d == JsonLoads(res.text)
       IN  /\ StatusReadable(d)
           /\ StatusValue(d) = 1
           /\ HasKey(d.val.v, KResult)
           /\ Lookup(d.val.v, KResult).t = "str"
           /\ JsonLoads(Strip(Lookup(d.val.v, KResult).v)).ok
\* A call ends in a value or in an exception raised to the caller, never both
\* and never neither.
ValueOrError ==
    /\ Finished => (outcome = "returned") # (raisedAt # 0)
    /\ outcome = "returned" => (pc = "done" /\ raisedAt = 0 /\ excData = JNull)
    /\ pc = "raised" => (outcome \notin {"none", "returned"} /\ retval = JNull)

C10_AsStated ==
    /\ calls = 0 => SESSION = NoSession
    /\ calls > 0 => SESSION # NoSession
    /\ request.sent => request.session = SESSION

\* C10 amended: the session is created once, when the module is imported
\* and before any call; every call issues its request through that one
\* session object, and no call creates, replaces or drops it.
C10_SessionCreatedAtImport ==
    /\ loaded <=> SESSION # NoSession
    /\ nSessions = (IF loaded THEN 1 ELSE 0)
    /\ loaded => SESSION = 1
    /\ calls > 0 => loaded
    /\ reqSessions \subseteq {1}
    /\ request.sent => (request.session = SESSION /\ request.session # NoSession)
    /\ nRequests > 0 => reqSessions = {SESSION}

\* C10 witness: two calls, two requests, one session.
C10_Witness ==
    /\ calls = 2
    /\ nRequests = 2
    /\ nSessions = 1
    /\ reqSessions = {1}
    /\ request.session = 1
====
